---- MODULE Spec2Model ----
(***************************************************************************)
(* A model of the IO-automaton of src/dfa.py: the DFA object (its ordered  *)
(* state dictionary, start name and epsilons_minimised flag), the passes   *)
(* minimise_epsilons and minimise, the halting decision decide, and        *)
(* step/run.                                                               *)
(*                                                                         *)
(* Python objects that matter for the behaviour are modelled explicitly:   *)
(*  - self.states is a dict, iterated in insertion order: it is the pair   *)
(*    K (the sequence of keys) and T (key -> descriptor);                  *)
(*  - the output of a Transition is a Python list, mutated in place by     *)
(*    "+=" in minimise_epsilons; lists are cells of the heap H and a       *)
(*    transition holds a reference.  Transition.__init__ has the default   *)
(*    argument output = [], one list object shared by every Transition     *)
(*    built without an output: that list is the cell Dflt.                 *)
(***************************************************************************)
EXTENDS Integers, Sequences, FiniteSets, TLC

\* ------------------------------------------------------------------ bounds
\* the automata handed to DFA(...) in the specifications Spec and SpecRun
MaxStates == 3      \* number of State objects
MaxEdges  == 3      \* total number of Transition objects
\* the smaller automata of the specification SpecEps
FewStates == 2
FewEdges  == 2
MaxBuf    == 2      \* longest input buffer handed to run
TestBuf   == 4      \* longest input buffer handed to the automaton of the test
\* finity.py
MAXINT    == 4      \* line 3
MaxLines  == 2      \* longest program of the family of programs
MaxIn     == 1      \* most numbers typed at the console during one FSM.run()
MaxKeys   == 32     \* most states of a machine that optimise is called on
MaxVal    == 10     \* largest magnitude of a variable that generation is followed to

\* ------------------------------------------------------------- data model
EOF    == "eof"                       \* IOSymbol('eof')
Keys   == {"a", EOF}                  \* input symbols usable as row keys
EPS    == "eps"                       \* label of the one edge of an unconditional Transition
LabelOrder == <<EPS, "a", "b", "c", EOF>>   \* iteration order of a descriptor's edges
Dflt   == <<0, "dflt">>               \* the shared default list of Transition.__init__
Refs(N) == {Dflt} \cup ((1 .. N) \X (Keys \cup {EPS}))
NoState == 0                          \* Python None used as "no next state"
NoEdges == [l \in {} |-> 0]

\* State.transitions: None, a Transition or a TransitionsRow.  A descriptor
\* is its kind and its edges, label -> Transition (state_to, output).
\* State.__init__ assigns self.transitions only when it is given a
\* transition, so a halting state is a State whose transitions attribute
\* was set to None afterwards; step, decide and distinguish test for it.
Transition(state_to, output) == [state_to |-> state_to, output |-> output]
NoneDesc          == [kind |-> "none", edges |-> NoEdges]
EpsDesc(t)        == [kind |-> "eps",  edges |-> [l \in {EPS} |-> t]]
TransitionsRow(f) == [kind |-> "row",  edges |-> f]

\* the descriptors State(s, ...) can be given that use exactly n Transitions
\* whose destinations are among the N states; each Transition either takes
\* the default output list or is given its own list (the cell <<s, label>>)
EdgeChoices(N, s, l) == {Transition(d, r) : d \in 1 .. N, r \in {Dflt, <<s, l>>}}
DescsOfSize(N, s, n) ==
    IF n = 0 THEN {NoneDesc}
    ELSE UNION { {TransitionsRow(f) : f \in {g \in [ks -> UNION {EdgeChoices(N, s, k) : k \in ks}] :
                                              \A k \in ks : g[k] \in EdgeChoices(N, s, k)}}
                 : ks \in {x \in SUBSET Keys : Cardinality(x) = n} }
         \cup (IF n = 1 THEN {EpsDesc(t) : t \in EdgeChoices(N, s, EPS)} ELSE {})

\* all descriptor tables for the states 1..n, of an automaton of N states,
\* that use at most b Transitions
RECURSIVE Tables(_, _, _)
Tables(N, n, b) ==
    IF n = 0 THEN {<<>>}
    ELSE UNION { { Append(t, d) : t \in Tables(N, n - 1, b - k), d \in DescsOfSize(N, n, k) }
                 : k \in 0 .. (IF b < Cardinality(Keys) THEN b ELSE Cardinality(Keys)) }

\* the heap right after the State objects were built: an own list holds the
\* one output symbol x, the default list is empty
InitHeap(T) == [r \in Refs(Len(T)) |->
    IF r # Dflt /\ r[2] \in DOMAIN T[r[1]].edges /\ T[r[1]].edges[r[2]].output = r
    THEN <<"x">> ELSE <<>>]

\* ------------------------------------------------------------- the state
VARIABLES
    states,               \* self.states: [keys: sequence of names, at: name -> descriptor]
    heap,                 \* the output lists, by reference
    start,                \* self.start
    epsilons_minimised,   \* self.epsilons_minimised
    pre,                  \* history: the DFA as it was before the last call
    op,                   \* history: the last call ("new", "eps", "min"; "newmin" is
                          \* DFA(...) that went on to call self.minimise(); "args"
                          \* when DFA(...) is still to be called)
    raised,               \* history: the last call raised an exception
    nmin,                 \* history: completed minimise() calls, saturating at 2
    decided,              \* the last decide(self.start, A): its alphabet and verdict
    ran,                  \* the last run(self.start, buffer): its buffer and outcome
    args,                 \* the State objects a DFA(...) call is about to be given
    stepping,             \* a run in progress: its position and its last call of step
    AST,                  \* finity.py: the lines of the parsed program (AST.children)
    gen,                  \* finity.py: the call of generate_states, its stack and its state map
    fsm,                  \* finity.py: the states of the FSM that compile returned
    fran,                 \* finity.py: the last FSM.run(): its console input and outcome
    optimised             \* finity.py: the call optimise(fsm): the state map returned

vars == <<states, heap, start, epsilons_minimised, pre, op, raised, nmin, decided, ran,
          args, stepping, AST, gen, fsm, fran, optimised>>

\* the variables of finity.py
lang == <<AST, gen, fsm, fran, optimised>>

NotDecided == [called |-> FALSE, alphabet |-> {}, verdict |-> ""]
NotRun == [called |-> FALSE, buffer |-> <<>>,
           result |-> [kind |-> "", at |-> NoState, output |-> <<>>]]
NoArgs == [names |-> <<>>, descs |-> <<>>, starts |-> {}, flags |-> {}]
NoStep == [next |-> NoState, output |-> <<>>, buffer |-> <<>>, err |-> FALSE]
NotStepping == [current_state |-> NoState, input_buffer |-> <<>>,
                called |-> FALSE, state |-> NoState, given |-> <<>>, result |-> NoStep]

\* the input buffers of at most MaxBuf symbols drawn from A
Buffers(A) == UNION {[1 .. n -> A] : n \in 0 .. MaxBuf}

\* finity.py is not in use
NoDict == [keys |-> <<>>, at |-> <<>>]
NoGen == [status |-> "idle", stack |-> <<>>, states |-> NoDict, printed |-> {}]
NotFsmRun == [called |-> FALSE, inputs |-> <<>>,
              result |-> [ret |-> "", at |-> [name |-> 0, variables |-> <<>>], consumed |-> 0,
                          printed |-> <<>>, error |-> ""]]
NotOptimised == [called |-> FALSE, raised |-> FALSE, states |-> NoDict]
NoCompiler ==
    AST = <<>> /\ gen = NoGen /\ fsm = NoDict /\ fran = NotFsmRun /\ optimised = NotOptimised

Snapshot == [states |-> states, heap |-> heap, start |-> start,
             epsilons_minimised |-> epsilons_minimised]

\* ------------------------------------------------------- minimise_epsilons
Labels(d) == SelectSeq(LabelOrder, LAMBDA l : l \in DOMAIN d.edges)
Remove(K, s) == SelectSeq(K, LAMBDA k : k # s)
Drop(T, s) == [n \in DOMAIN T \ {s} |-> T[n]]

\* lines 115-117 and 120-122 without the "+=" of lines 117 and 122
redirect_drop(T, H, s, o, l) ==
    IF T[o].edges[l].state_to = s
    THEN [T |-> [T EXCEPT ![o].edges[l].state_to = T[s].edges[EPS].state_to], H |-> H]
    ELSE [T |-> T, H |-> H]

\* lines 115-117 and 120-122: one Transition of other_state o is redirected
\* past the state s and s's output list is appended in place to its own
redirect(T, H, s, o, l) ==
    IF T[o].edges[l].state_to = s
    THEN [T |-> [T EXCEPT ![o].edges[l].state_to = T[s].edges[EPS].state_to],
          H |-> [H EXCEPT ![T[o].edges[l].output] = @ \o H[T[s].edges[EPS].output]]]
    ELSE [T |-> T, H |-> H]

RECURSIVE redirect_edges(_, _, _, _, _)
redirect_edges(T, H, s, o, ls) ==
    IF ls = <<>> THEN [T |-> T, H |-> H]
    ELSE LET r == redirect(T, H, s, o, Head(ls))
         IN redirect_edges(r.T, r.H, s, o, Tail(ls))

\* lines 113-122: the loop over other_state, in dictionary order
RECURSIVE redirect_others(_, _, _, _)
redirect_others(T, H, s, os) ==
    IF os = <<>> THEN [T |-> T, H |-> H]
    ELSE LET r == redirect_edges(T, H, s, Head(os), Labels(T[Head(os)]))
         IN redirect_others(r.T, r.H, s, Tail(os))

\* line 111-112: the first state, in dictionary order, that holds a Transition
first_epsilon(K, T) ==
    LET idx == {i \in 1 .. Len(K) : T[K[i]].kind = "eps"}
    IN IF idx = {} THEN NoState
       ELSE K[CHOOSE i \in idx : \A j \in idx : i <= j]

\* minimise_epsilons without its while loop: one state is removed per call
minimise_epsilons_once(K, T, H) ==
    LET s == first_epsilon(K, T)
    IN IF s = NoState THEN [K |-> K, T |-> T, H |-> H]
       ELSE LET r == redirect_others(T, H, s, K)
            IN [K |-> Remove(K, s), T |-> Drop(r.T, s), H |-> r.H]

\* lines 109-128: the while loop ("if removed" holds for every name here:
\* the names 1, 2, ... are truthy)
RECURSIVE minimise_epsilons(_, _, _)
minimise_epsilons(K, T, H) ==
    LET s == first_epsilon(K, T)
    IN IF s = NoState THEN [K |-> K, T |-> T, H |-> H]
       ELSE LET r == redirect_others(T, H, s, K)
            IN minimise_epsilons(Remove(K, s), Drop(r.T, s), r.H)

\* ---------------------------------------------------------------- minimise
\* line 211: the keys of distinctness_table, combinations(self.states.keys(), 2),
\* in the order the dictionary is iterated
RECURSIVE Pairs(_)
Pairs(K) ==
    IF Len(K) < 2 THEN <<>>
    ELSE [j \in 1 .. Len(K) - 1 |-> <<K[1], K[j + 1]>>] \o Pairs(Tail(K))

\* a result of distinguish / record_distinctness: the value returned, the
\* distinctness_table afterwards, and whether an exception was raised
Ret(v, tab, err) == [v |-> v, tab |-> tab, err |-> err]

\* lines 247-255; the table holds "None", "True" or "False"
record_distinctness(tab, a, b, v) ==
    LET w == IF v THEN "True" ELSE "False"
    IN IF <<a, b>> \in DOMAIN tab THEN Ret(v, [tab EXCEPT ![<<a, b>>] = w], FALSE)
       ELSE IF <<b, a>> \in DOMAIN tab THEN Ret(v, [tab EXCEPT ![<<b, a>>] = w], FALSE)
       ELSE Ret(v, tab, TRUE)

\* line 240: the conjunction applied to one symbol's pair of outputs
same_output_and(H, ea, eb) == H[ea.output] = H[eb.output]

\* lines 212-246.  visited is the dict name -> set of names, held as the set
\* of pairs <<name, member>>; T[x] with x not a key is the KeyError of
\* self.states[x]
RECURSIVE distinguish(_, _, _, _, _, _)
RECURSIVE any_symbol(_, _, _, _, _, _, _)
distinguish(T, H, a, b, visited, tab) ==
    IF a \notin DOMAIN T \/ b \notin DOMAIN T THEN Ret(FALSE, tab, TRUE)
    ELSE IF a = b THEN Ret(FALSE, tab, FALSE)
    ELSE IF \E p \in visited : p[1] = a
         THEN record_distinctness(tab, a, b, <<a, b>> \notin visited)
    ELSE IF T[a].kind = "none"
         THEN record_distinctness(tab, a, b, T[b].kind # "none")
    ELSE IF T[a].kind = "eps" /\ T[b].kind = "eps"
            /\ H[T[a].edges[EPS].output] = H[T[b].edges[EPS].output]
         THEN record_distinctness(tab, a, b, FALSE)
    ELSE IF T[a].kind = "row" /\ T[b].kind = "row"
         THEN IF DOMAIN T[a].edges # DOMAIN T[b].edges
              THEN record_distinctness(tab, a, b, TRUE)
              ELSE LET r == any_symbol(T, H, a, b, visited \cup {<<a, b>>}, tab, Labels(T[a]))
                   IN IF r.err THEN r ELSE record_distinctness(r.tab, a, b, r.v)
    ELSE record_distinctness(tab, a, b, TRUE)

\* lines 240-242: any([... for symbol in state_a.transitions.inputs]); the
\* list is built in full, so every symbol is evaluated
any_symbol(T, H, a, b, visited, tab, ls) ==
    IF ls = <<>> THEN Ret(FALSE, tab, FALSE)
    ELSE LET ea == T[a].edges[Head(ls)]
             eb == T[b].edges[Head(ls)]
             one == IF same_output_and(H, ea, eb)
                    THEN distinguish(T, H, ea.state_to, eb.state_to, visited, tab)
                    ELSE Ret(FALSE, tab, FALSE)
         IN IF one.err THEN one
            ELSE LET rest == any_symbol(T, H, a, b, visited, one.tab, Tail(ls))
                 IN Ret(one.v \/ rest.v, rest.tab, rest.err)

\* lines 257-260: every pair still None is explored, in table order
RECURSIVE fill_table(_, _, _, _)
fill_table(T, H, ps, tab) ==
    IF ps = <<>> THEN Ret(FALSE, tab, FALSE)
    ELSE IF tab[Head(ps)] # "None" THEN fill_table(T, H, Tail(ps), tab)
    ELSE LET r == distinguish(T, H, Head(ps)[1], Head(ps)[2], {}, tab)
         IN IF r.err THEN r ELSE fill_table(T, H, Tail(ps), r.tab)

\* lines 264-267: equivalence_classes, name -> class number
RECURSIVE fold_classes(_, _, _)
fold_classes(ps, tab, ec) ==
    IF ps = <<>> THEN ec
    ELSE fold_classes(Tail(ps), tab,
            IF tab[Head(ps)] # "True"
            THEN [ec EXCEPT ![Head(ps)[1]] = ec[Head(ps)[2]]] ELSE ec)

equivalence_classes(K, tab) ==
    fold_classes(Pairs(K), tab, [s \in {K[i] : i \in 1 .. Len(K)} |->
                                   (CHOOSE i \in 1 .. Len(K) : K[i] = s) - 1])

\* lines 268-272: representative_states, class number -> name
RECURSIVE representative_states(_, _, _, _)
representative_states(ks, ec, st, reps) ==
    IF ks = <<>> THEN reps
    ELSE LET s == Head(ks)
             c == ec[s]
         IN representative_states(Tail(ks), ec, st,
               IF c \notin DOMAIN reps \/ reps[c] # st
               THEN [x \in DOMAIN reps \cup {c} |-> IF x = c THEN s ELSE reps[x]]
               ELSE reps)

\* lines 279-283: the destinations of one surviving state are replaced by
\* representatives; equivalence_classes[x] with x not a key is a KeyError
RECURSIVE rewrite_edges(_, _, _, _, _)
rewrite_edges(T, s, ls, ec, reps) ==
    IF ls = <<>> THEN [T |-> T, err |-> FALSE]
    ELSE LET d == T[s].edges[Head(ls)].state_to
         IN IF d \notin DOMAIN ec THEN [T |-> T, err |-> TRUE]
            ELSE rewrite_edges([T EXCEPT ![s].edges[Head(ls)].state_to = reps[ec[d]]],
                               s, Tail(ls), ec, reps)

\* lines 274-283
RECURSIVE rewrite_states(_, _, _, _)
rewrite_states(T, ks, ec, reps) ==
    IF ks = <<>> THEN [T |-> T, err |-> FALSE]
    ELSE IF Head(ks) \notin {reps[c] : c \in DOMAIN reps}
         THEN rewrite_states(T, Tail(ks), ec, reps)
    ELSE LET r == rewrite_edges(T, Head(ks), Labels(T[Head(ks)]), ec, reps)
         IN IF r.err THEN r ELSE rewrite_states(r.T, Tail(ks), ec, reps)

\* lines 205-285.  The result is the DFA afterwards and whether minimise
\* raised; an exception leaves the object as mutated so far
minimise(K0, T0, H0, st, em) ==
    LET e   == IF em THEN [K |-> K0, T |-> T0, H |-> H0] ELSE minimise_epsilons(K0, T0, H0)
        K   == e.K
        ps  == Pairs(K)
        tab == fill_table(e.T, e.H, ps, [p \in {ps[i] : i \in 1 .. Len(ps)} |-> "None"])
        ec  == equivalence_classes(K, tab.tab)
        reps == representative_states(K, ec, st, [c \in {} |-> 0])
        keep == {reps[c] : c \in DOMAIN reps}
        rw  == rewrite_states(e.T, K, ec, reps)
    IN IF tab.err THEN [K |-> K, T |-> e.T, H |-> e.H, err |-> TRUE]
       ELSE IF rw.err THEN [K |-> K, T |-> rw.T, H |-> e.H, err |-> TRUE]
       ELSE [K |-> SelectSeq(K, LAMBDA k : k \in keep),
             T |-> [s \in keep |-> rw.T[s]], H |-> e.H, err |-> FALSE]

\* ------------------------------------------------------------ step and run
\* lines 144-173 with the symbol taken off the buffer before the kind of the
\* descriptor is looked at
step_pops(T, H, s, input_buffer) ==
    LET d == T[s]
        input_symbol == IF Len(input_buffer) > 0 THEN Head(input_buffer) ELSE EOF
        rest == IF Len(input_buffer) > 0 THEN Tail(input_buffer) ELSE input_buffer
        label == IF d.kind = "eps" THEN EPS ELSE input_symbol
        taken == d.kind # "none" /\ label \in DOMAIN d.edges
        next_state_name == IF taken THEN d.edges[label].state_to ELSE NoState
        output == IF taken THEN H[d.edges[label].output] ELSE <<>>
    IN [next |-> next_state_name, output |-> output, buffer |-> rest,
        err |-> next_state_name # NoState /\ next_state_name \notin DOMAIN T]

\* lines 144-173: (next state or None, output, remaining buffer); err is the
\* exception of line 170
step(T, H, s, input_buffer) ==
    LET d == T[s]
        input_symbol == IF Len(input_buffer) > 0 THEN Head(input_buffer) ELSE EOF
        rest == IF d.kind = "row" /\ Len(input_buffer) > 0
                THEN Tail(input_buffer) ELSE input_buffer
        label == IF d.kind = "eps" THEN EPS ELSE input_symbol
        taken == d.kind # "none" /\ label \in DOMAIN d.edges
        next_state_name == IF taken THEN d.edges[label].state_to ELSE NoState
        output == IF taken THEN H[d.edges[label].output] ELSE <<>>
    IN [next |-> next_state_name, output |-> output, buffer |-> rest,
        err |-> next_state_name # NoState /\ next_state_name \notin DOMAIN T]

\* lines 135-143.  step is deterministic, so the loop never returns once it
\* is back at a (state, buffer) it has been in: that outcome is "forever",
\* reported with the output printed until then
RECURSIVE run_loop(_, _, _, _, _, _)
run_loop(T, H, current_state, input_buffer, printed, seen) ==
    IF <<current_state, input_buffer>> \in seen
    THEN [kind |-> "forever", at |-> current_state, output |-> printed]
    ELSE LET r == step(T, H, current_state, input_buffer)
         IN IF r.err THEN [kind |-> "raise", at |-> current_state, output |-> printed]
            ELSE IF r.next = NoState
            THEN [kind |-> "halt", at |-> current_state, output |-> printed \o r.output]
            ELSE run_loop(T, H, r.next, r.buffer, printed \o r.output,
                          seen \cup {<<current_state, input_buffer>>})

\* lines 130-143; self.states[start] with start not a key is a KeyError
run(T, H, st, input_buffer) ==
    IF st \notin DOMAIN T THEN [kind |-> "raise", at |-> NoState, output |-> <<>>]
    ELSE run_loop(T, H, st, input_buffer, <<>>, {})

\* ------------------------------------------------------------------ decide
MayEither  == "may run forever or halt depending on input"
RunForever == "will run forever regardless of input"
WillHalt   == "will halt eventually regardless of input"
Raises     == "raise"

\* lines 176-195: (halt possible, loop possible); err is a KeyError of
\* self.states[start]
RECURSIVE decide_recursive(_, _, _, _)
RECURSIVE decide_options(_, _, _, _, _)
decide_recursive(T, s, visited, possible_inputs) ==
    IF s \in visited THEN [halt |-> FALSE, loop |-> TRUE, err |-> FALSE]
    ELSE IF s \notin DOMAIN T THEN [halt |-> FALSE, loop |-> FALSE, err |-> TRUE]
    ELSE IF T[s].kind = "none" THEN [halt |-> TRUE, loop |-> FALSE, err |-> FALSE]
    ELSE IF T[s].kind = "eps"
         THEN decide_recursive(T, T[s].edges[EPS].state_to, visited \cup {s}, possible_inputs)
    ELSE LET o == decide_options(T, s, visited \cup {s}, possible_inputs,
                                 SelectSeq(Labels(T[s]), LAMBDA l : l \in possible_inputs))
             possible_input_values == Cardinality(DOMAIN T[s].edges \cap possible_inputs)
         IN [halt |-> o.halt \/ possible_input_values < Cardinality(possible_inputs),
             loop |-> o.loop, err |-> o.err]

\* lines 186-189 and 192-194: the options of the admissible keys, or-ed
decide_options(T, s, visited, possible_inputs, ls) ==
    IF ls = <<>> THEN [halt |-> FALSE, loop |-> FALSE, err |-> FALSE]
    ELSE LET one == decide_recursive(T, T[s].edges[Head(ls)].state_to, visited, possible_inputs)
         IN IF one.err THEN one
            ELSE LET more == decide_options(T, s, visited, possible_inputs, Tail(ls))
                 IN [halt |-> one.halt \/ more.halt, loop |-> one.loop \/ more.loop,
                     err |-> more.err]

\* lines 196-204 with the first test written with "or" for "and"
decide_or(T, st, possible_inputs) ==
    LET r == decide_recursive(T, st, {}, possible_inputs)
    IN IF r.err THEN Raises
       ELSE IF r.halt \/ r.loop THEN MayEither
       ELSE Raises

\* lines 174-204
decide(T, st, possible_inputs) ==
    LET r == decide_recursive(T, st, {}, possible_inputs)
    IN IF r.err THEN Raises
       ELSE IF r.halt /\ r.loop THEN MayEither
       ELSE IF ~r.halt /\ r.loop THEN RunForever
       ELSE IF r.halt /\ ~r.loop THEN WillHalt
       ELSE Raises

\* ------------------------------------------------------------ operations
\* DFA(start, states, minimise = False) for N states that hold at most E
\* Transitions, all of whose destinations are among the states
Constructed(N, E) ==
    /\ \E T \in Tables(N, N, E) :
          /\ states = [keys |-> [i \in 1 .. N |-> i], at |-> T]
          /\ heap = InitHeap(T)
    /\ start \in 1 .. N
    /\ epsilons_minimised = FALSE
    /\ pre = Snapshot
    /\ op = "new"
    /\ raised = FALSE
    /\ nmin = 0
    /\ decided = NotDecided
    /\ ran = NotRun
    /\ args = NoArgs
    /\ stepping = NotStepping
    /\ NoCompiler

Init == Constructed(MaxStates, MaxEdges)

InitFew == Constructed(FewStates, FewEdges)

dfa == <<states, heap, start, epsilons_minimised, pre, op, raised, nmin, args>>

\* ---- DFA.__init__, lines 91-106

\* lines 93-98: the State objects are entered by name, in order; err is the
\* exception for a name that is already a key
RECURSIVE add_states(_, _, _, _, _)
add_states(names, descs, i, K, T) ==
    IF i > Len(names) THEN [K |-> K, T |-> T, err |-> FALSE]
    ELSE IF names[i] \in DOMAIN T THEN [K |-> K, T |-> T, err |-> TRUE]
    ELSE add_states(names, descs, i + 1, Append(K, names[i]), T @@ (names[i] :> descs[i]))

\* what a raising constructor leaves: no object
NoObject(H, minimised) ==
    [K |-> <<>>, T |-> <<>>, H |-> H, em |-> FALSE, err |-> TRUE, minimised |-> minimised]

\* lines 105-106: what self.minimise() leaves; its exception is the
\* constructor's
Minimised(r) ==
    IF r.err THEN NoObject(r.H, TRUE)
    ELSE [K |-> r.K, T |-> r.T, H |-> r.H, em |-> TRUE, err |-> FALSE, minimised |-> TRUE]

\* lines 91-106 without the test of lines 100-102
dfa_init_nostart(names, descs, H, st, minimise_flag) ==
    LET a == add_states(names, descs, 1, <<>>, <<>>)
    IN IF a.err THEN NoObject(H, FALSE)
       ELSE IF minimise_flag THEN Minimised(minimise(a.K, a.T, H, st, FALSE))
       ELSE [K |-> a.K, T |-> a.T, H |-> H, em |-> FALSE, err |-> FALSE, minimised |-> FALSE]

\* lines 91-106
dfa_init(names, descs, H, st, minimise_flag) ==
    LET a == add_states(names, descs, 1, <<>>, <<>>)
    IN IF a.err THEN NoObject(H, FALSE)
       ELSE IF st \notin DOMAIN a.T THEN NoObject(H, FALSE)
       ELSE IF minimise_flag THEN Minimised(minimise(a.K, a.T, H, st, FALSE))
       ELSE [K |-> a.K, T |-> a.T, H |-> H, em |-> FALSE, err |-> FALSE, minimised |-> FALSE]

\* the names N State objects can be given: 1..N, or with one of them named
\* again 1 (a duplicate) or named N + 1 (so that its own name j is missing)
NameLists(N) ==
    {[i \in 1 .. N |-> IF i = j THEN n ELSE i] : <<j, n>> \in
        {p \in (1 .. N) \X (1 .. N + 1) : p[2] \in {p[1], 1, N + 1}}}

\* N State objects holding at most E Transitions, whose destinations, and
\* the start names tried, are among 1..N; DFA(...) is still to be called
Given(N, E) ==
    /\ \E T \in Tables(N, N, E) : \E nm \in NameLists(N) :
          /\ args = [names |-> nm, descs |-> T, starts |-> 1 .. N, flags |-> BOOLEAN]
          /\ heap = InitHeap(T)
    /\ states = NoDict
    /\ start = NoState
    /\ epsilons_minimised = FALSE
    /\ pre = Snapshot
    /\ op = "args"
    /\ raised = FALSE
    /\ nmin = 0
    /\ decided = NotDecided
    /\ ran = NotRun
    /\ stepping = NotStepping
    /\ NoCompiler

InitGiven == Given(FewStates, FewEdges)

\* DFA(st, states, minimise = m)
New ==
    /\ op = "args"
    /\ \E st \in args.starts : \E m \in args.flags :
          \E r \in {dfa_init(args.names, args.descs, heap, st, m)} :
             /\ states' = [keys |-> r.K, at |-> r.T]
             /\ heap' = r.H
             /\ start' = st
             /\ epsilons_minimised' = r.em
             /\ op' = IF r.minimised THEN "newmin" ELSE "new"
             /\ raised' = r.err
             /\ nmin' = IF r.minimised /\ ~r.err THEN 1 ELSE 0
    /\ pre' = Snapshot
    /\ UNCHANGED <<decided, ran, args, stepping, lang>>

\* ---- the automaton of the test, lines 287-293
A     == 1          \* State('A', ...)
preB2 == 2          \* State('preB2', ...)
B1    == 3          \* State('B1', ...)
B2    == 4          \* State('B2', ...)
TestStates ==
    << TransitionsRow([l \in {"a", "b"} |-> IF l = "a" THEN Transition(B1, <<A, "a">>)
                                                       ELSE Transition(preB2, <<A, "b">>)]),
       EpsDesc(Transition(B2, <<preB2, EPS>>)),
       TransitionsRow([l \in {"c"} |-> Transition(A, <<B1, "c">>)]),
       TransitionsRow([l \in {"c"} |-> Transition(A, <<B2, "c">>)]) >>
\* the output lists the test writes out: [x], [], [y], [z], [z]
TestHeap ==
    (Dflt :> <<>>) @@ (<<A, "a">> :> <<"x">>) @@ (<<A, "b">> :> <<>>) @@
    (<<preB2, EPS>> :> <<"y">>) @@ (<<B1, "c">> :> <<"z">>) @@ (<<B2, "c">> :> <<"z">>)
TestInput == <<"a", "c", "b", "c">>
\* the buffers of at most TestBuf symbols over the keys of the test
TestBuffers == UNION {[1 .. n -> {"a", "b", "c"}] : n \in 0 .. TestBuf}

\* the State objects of the test are built, DFA('A', ...) is still to be called
InitTest ==
    /\ args = [names |-> <<A, preB2, B1, B2>>, descs |-> TestStates,
               starts |-> {A}, flags |-> {TRUE}]
    /\ heap = TestHeap
    /\ states = NoDict
    /\ start = NoState
    /\ epsilons_minimised = FALSE
    /\ pre = Snapshot
    /\ op = "args"
    /\ raised = FALSE
    /\ nmin = 0
    /\ decided = NotDecided
    /\ ran = NotRun
    /\ stepping = NotStepping
    /\ NoCompiler

\* test.run('A', buffer) as one call, on the automaton the constructor returned
TestRun ==
    \E b \in TestBuffers :
       /\ op # "args" /\ ~raised
       /\ ran' = [called |-> TRUE, buffer |-> b, result |-> run(states.at, heap, A, b)]
       /\ UNCHANGED <<dfa, decided, stepping, lang>>

MinimiseEpsilons ==
    LET r == minimise_epsilons(states.keys, states.at, heap)
    IN /\ states' = [keys |-> r.K, at |-> r.T]
       /\ heap' = r.H
       /\ epsilons_minimised' = TRUE
       /\ pre' = Snapshot
       /\ op' = "eps"
       /\ raised' = FALSE
       /\ UNCHANGED <<start, nmin, decided, ran, args, stepping, lang>>

Minimise ==
    LET r == minimise(states.keys, states.at, heap, start, epsilons_minimised)
    IN /\ states' = [keys |-> r.K, at |-> r.T]
       /\ heap' = r.H
       /\ epsilons_minimised' = TRUE
       /\ pre' = Snapshot
       /\ op' = "min"
       /\ raised' = r.err
       /\ nmin' = IF r.err \/ nmin = 2 THEN nmin ELSE nmin + 1
       /\ UNCHANGED <<start, decided, ran, args, stepping, lang>>

\* decide(self.start, possible_inputs) for an admissible alphabet
Decide ==
    \E possible_inputs \in SUBSET Keys :
       /\ decided' = [called |-> TRUE, alphabet |-> possible_inputs,
                      verdict |-> decide(states.at, start, possible_inputs)]
       /\ ran' = NotRun
       /\ UNCHANGED <<dfa, stepping, lang>>

\* run(self.start, buffer) as one call
Run ==
    \E b \in Buffers(Keys) :
       /\ ran' = [called |-> TRUE, buffer |-> b, result |-> run(states.at, heap, start, b)]
       /\ decided' = NotDecided
       /\ UNCHANGED <<dfa, stepping, lang>>

\* lines 132-134 of run(self.start, buffer): the loop is entered.  run is
\* synchronous, so it is called only when no run is in progress
RunEnter ==
    \E b \in Buffers(Keys) :
       /\ stepping.current_state = NoState
       /\ start \in DOMAIN states.at
       /\ stepping' = [NotStepping EXCEPT !.current_state = start, !.input_buffer = b]
       /\ UNCHANGED <<dfa, decided, ran, lang>>

\* lines 135-143: one turn of the loop of run, which calls step; an exception
\* of step ends the run
Step ==
    /\ stepping.current_state # NoState
    /\ LET r == step(states.at, heap, stepping.current_state, stepping.input_buffer)
       IN stepping' = [current_state |-> IF r.err THEN NoState ELSE r.next,
                       input_buffer  |-> r.buffer,
                       called |-> TRUE,
                       state  |-> stepping.current_state,
                       given  |-> stepping.input_buffer,
                       result |-> r]
    /\ UNCHANGED <<dfa, decided, ran, lang>>

Next == MinimiseEpsilons \/ Minimise

NextRun == Decide \/ Run

\* the passes over a constructed automaton
Spec == Init /\ [][Next]_vars

\* minimise_epsilons alone, called any number of times
SpecEps == InitFew /\ [][MinimiseEpsilons]_vars

\* decide and run on a constructed automaton
SpecRun == Init /\ [][NextRun]_vars

\* the constructor, on State objects whose names may repeat or be missing
SpecNew == InitGiven /\ [][New]_vars

\* the test of lines 287-293, run on every buffer of at most TestBuf symbols
NextTest == New \/ TestRun
SpecTest == InitTest /\ [][NextTest]_vars

\* decide alone, on the smaller automata
SpecDecide == InitFew /\ [][Decide]_vars

\* run, one call of step at a time, on the smaller automata
NextStep == RunEnter \/ Step
SpecStep == InitFew /\ [][NextStep]_vars

\* ================================================================ finity.py
\* ---- Python values: an int, a str (the text s repeated n times: the only
\* strings computed are repetitions of '//'), or None
PyInt(n)    == [kind |-> "int",  n |-> n, s |-> ""]
PyStr(s, n) == [kind |-> "str",  n |-> n, s |-> s]
PyNone    == [kind |-> "none", n |-> 0, s |-> ""]

\* ---- the dict variables, in insertion order: a sequence of <<name, value>>
Names(variables) == {variables[i][1] : i \in DOMAIN variables}
Lookup(variables, v) == variables[CHOOSE i \in DOMAIN variables : variables[i][1] = v][2]
\* variables[v] = val, and variables | {v: val}: a bound name keeps its place
Bind(variables, v, val) ==
    IF v \in Names(variables)
    THEN [i \in DOMAIN variables |-> IF variables[i][1] = v THEN <<v, val>> ELSE variables[i]]
    ELSE Append(variables, <<v, val>>)

\* ---- the tree of an expression: a value (VARNAME or NUMBER), an operation
\* a op b, or an expression in brackets
VarName(v)      == [kind |-> "value", type |-> "VARNAME", name |-> v, number |-> 0]
Number(n)       == [kind |-> "value", type |-> "NUMBER", name |-> "", number |-> n]
Operation(a, o, b) == [kind |-> "operation", a |-> a, op |-> o, b |-> b]

\* the outcome of evaluating: the value, whether an exception was raised
\* (KeyError of an unbound name, TypeError of an operand), what was printed
Val(v)    == [val |-> v, err |-> FALSE, printed |-> {}]
Raised    == [val |-> PyNone, err |-> TRUE, printed |-> {}]

\* lines 253-272: the operator applied to two Python values
apply_op(o, a, b) ==
    LET ints == a.kind = "int" /\ b.kind = "int"
        strs == a.kind = "str" /\ b.kind = "str"
        bit(c) == Val(PyInt(IF c THEN 1 ELSE 0))
    IN CASE o = "+" -> IF ints THEN Val(PyInt(a.n + b.n))
                       ELSE IF strs THEN Val(PyStr("//", a.n + b.n)) ELSE Raised
         [] o = "-" -> IF ints THEN Val(PyInt(a.n - b.n)) ELSE Raised
         [] o = "*" -> IF ints THEN Val(PyInt(a.n * b.n))
                       ELSE IF a.kind = "str" /\ b.kind = "int"
                       THEN Val(PyStr("//", IF b.n > 0 THEN a.n * b.n ELSE 0))
                       ELSE IF a.kind = "int" /\ b.kind = "str"
                       THEN Val(PyStr("//", IF a.n > 0 THEN a.n * b.n ELSE 0))
                       ELSE Raised
         [] o = "/" -> Val(PyStr("//", 1))
         [] o = ">" -> IF ints \/ strs THEN bit(a.n > b.n) ELSE Raised
         [] o = "<" -> IF ints \/ strs THEN bit(a.n < b.n) ELSE Raised
         [] o = "==" -> bit(a = b)
         [] OTHER -> [val |-> PyNone, err |-> FALSE, printed |-> {"unrecognised op"}]

\* lines 246-274
RECURSIVE run_expression(_, _)
run_expression(expr, variables) ==
    IF expr.kind = "value"
    THEN IF expr.type = "VARNAME"
         THEN IF expr.name \in Names(variables) THEN Val(Lookup(variables, expr.name)) ELSE Raised
         ELSE Val(PyInt(expr.number))
    ELSE IF expr.kind = "operation"
    THEN LET a == run_expression(expr.a, variables)
             b == run_expression(expr.b, variables)
         IN IF a.err THEN a
            ELSE IF b.err THEN [b EXCEPT !.printed = a.printed \cup b.printed]
            ELSE LET r == apply_op(expr.op, a.val, b.val)
                 IN [r EXCEPT !.printed = a.printed \cup b.printed \cup r.printed]
    ELSE run_expression(expr.e, variables)

\* "if <value> == 1:" for "if <value>:"
TruthyIsOne(v) == v.kind = "int" /\ v.n = 1

\* "if <value>:" in Python
Truthy(v) == (v.kind = "int" /\ v.n # 0) \/ (v.kind = "str" /\ v.n # 0)

\* ---- class State, lines 8-25.  Two State objects are equal when the
\* hashes of their repr are: repr is the name followed by the dict variables
\* as Python prints it, the bindings in insertion order.  A State is modelled
\* as what its repr shows.  START is the name 'start' of State('start'), the
\* one State built without variables.
START == 0 - 1
State(name, variables) == [name |-> name, variables |-> variables]

\* ---- the values of the state map: (output, transition); a transition is
\* None, a State, or a dict from the inputs 0..MAXINT-1 to States (to[i + 1]
\* is the State of input i)
Entry(output, transition) == [output |-> output, transition |-> transition]
Halt        == [kind |-> "none",  to |-> <<>>]
Epsilon(k)  == [kind |-> "eps",   to |-> <<k>>]
OnInput(f)  == [kind |-> "input", to |-> f]

\* states[k] = e on a Python dict: a new key goes last
Put(D, k, e) ==
    IF k \in DOMAIN D.at THEN [D EXCEPT !.at[k] = e]
    ELSE [keys |-> Append(D.keys, k), at |-> D.at @@ (k :> e)]

\* ---- the lines of a program (AST.children)
Label(l)              == [data |-> "label", name |-> l]
Goto(l)               == [data |-> "goto", label |-> l]
ConditionalGoto(l, e) == [data |-> "conditionalgoto", label |-> l, expr |-> e]
Input(v)              == [data |-> "input", var |-> v]
Output(t, v)          == [data |-> "output", type |-> t, value |-> v]
Assignment(v, e)      == [data |-> "assignment", var |-> v, expr |-> e]
Unknown               == [data |-> "pass"]

\* lines 180-184 of parse: label name -> index of its (last) label line
label_index(lines) ==
    [l \in {lines[i].name : i \in {j \in DOMAIN lines : lines[j].data = "label"}} |->
        (CHOOSE i \in DOMAIN lines :
            /\ lines[i].data = "label" /\ lines[i].name = l
            /\ \A j \in DOMAIN lines : (lines[j].data = "label" /\ lines[j].name = l) => j <= i) - 1]

\* ---- generate_states, lines 194-243.  The call and the calls it makes of
\* itself are a stack of frames; a frame is in the while loop of line 199
\* ("loop") or in the for loop of line 217 ("input", about to recurse for
\* the input n).  All frames write the one dict states.
Frame(mode, line_pointer, variables, var, n) ==
    [mode |-> mode, line_pointer |-> line_pointer, variables |-> variables, var |-> var, n |-> n]

\* one turn of the while loop (lines 200-241) or of the for loop (217-218)
\* of the innermost call
gen_step(lines, g) ==
    LET top  == g.stack[Len(g.stack)]
        rest == SubSeq(g.stack, 1, Len(g.stack) - 1)
        line_pointer == top.line_pointer
        variables == top.variables
        this_state == State(line_pointer, variables)
        \* return states
        Return(D) == [g EXCEPT !.stack = rest, !.states = D,
                               !.status = IF rest = <<>> THEN "done" ELSE "running"]
        \* states[this_state] = entry, and round the loop again
        Goes(entry, lp, vs, printed) ==
            [g EXCEPT !.stack = Append(rest, Frame("loop", lp, vs, "", 0)),
                      !.states = Put(g.states, this_state, entry),
                      !.printed = @ \cup printed]
        \* an uncaught exception, or exit()
        Ends(how, printed) == [g EXCEPT !.status = how, !.printed = @ \cup printed]
        index == label_index(lines)
    IN IF top.mode = "input"
       THEN IF top.n < MAXINT
            THEN [g EXCEPT !.stack = Append(Append(rest, [top EXCEPT !.n = top.n + 1]),
                              Frame("loop", line_pointer + 1,
                                    Bind(variables, top.var, PyInt(top.n)), "", 0))]
            ELSE Return(g.states)
       ELSE IF line_pointer >= Len(lines)
       THEN Return(Put(g.states, this_state, Entry(PyNone, Halt)))
       ELSE IF this_state \in DOMAIN g.states.at
       THEN Return(g.states)
       ELSE LET line == lines[line_pointer + 1]
            IN CASE line.data = "goto" ->
                      IF line.label \notin DOMAIN index THEN Ends("raise", {})
                      ELSE Goes(Entry(PyNone, Epsilon(State(index[line.label], variables))),
                                index[line.label], variables, {})
                 [] line.data = "conditionalgoto" ->
                      LET r == run_expression(line.expr, variables)
                      IN IF r.err THEN Ends("raise", r.printed)
                         ELSE IF Truthy(r.val)
                         THEN IF line.label \notin DOMAIN index THEN Ends("raise", r.printed)
                              ELSE Goes(Entry(PyNone, Epsilon(State(index[line.label], variables))),
                                        index[line.label], variables, r.printed)
                         ELSE Goes(Entry(PyNone, Epsilon(State(line_pointer + 1, variables))),
                                   line_pointer + 1, variables, r.printed)
                 [] line.data = "input" ->
                      [g EXCEPT !.stack = Append(rest, Frame("input", line_pointer, variables,
                                                             line.var, 0)),
                                !.states = Put(g.states, this_state,
                                    Entry(PyNone, OnInput([i \in 1 .. MAXINT |->
                                        State(line_pointer + 1,
                                              Bind(variables, line.var, PyInt(i - 1)))])))]
                 [] line.data = "output" ->
                      IF line.type = "STRING"
                      THEN Goes(Entry(PyStr(line.value, 1), Epsilon(State(line_pointer + 1, variables))),
                                line_pointer + 1, variables, {})
                      ELSE IF line.type = "VARNAME"
                      THEN IF line.value \notin Names(variables) THEN Ends("raise", {})
                           ELSE Goes(Entry(Lookup(variables, line.value),
                                           Epsilon(State(line_pointer + 1, variables))),
                                     line_pointer + 1, variables, {})
                      ELSE Ends("exit", {"unknown type to output"})
                 [] line.data = "assignment" ->
                      LET r == run_expression(line.expr, variables)
                          vs == Bind(variables, line.var, r.val)
                      IN IF r.err THEN Ends("raise", r.printed)
                         ELSE Goes(Entry(PyNone, Epsilon(State(line_pointer + 1, vs))),
                                   line_pointer + 1, vs, r.printed)
                 [] line.data = "label" ->
                      Goes(Entry(PyNone, Epsilon(State(line_pointer + 1, variables))),
                           line_pointer + 1, variables, {})
                 [] OTHER ->
                      Goes(Entry(PyNone, Epsilon(State(line_pointer + 1, variables))),
                           line_pointer + 1, variables, {"unknown command"})

\* ---- compile, lines 283-285: State(0, {}) is entered again as
\* State('start') and popped; the other entries are left as they are
compile(D) ==
    LET first == State(0, <<>>)
        D2 == Put(D, State(START, <<>>), D.at[first])
    IN [keys |-> SelectSeq(D2.keys, LAMBDA k : k # first),
        at   |-> [k \in DOMAIN D2.at \ {first} |-> D2.at[k]]]

\* ---- optimise, lines 56-144.  The States optimise builds, State(i) for
\* the number of a class, State('start'), and State(x) for a location x that
\* is not a number, are built without variables, as State('start') is in
\* compile; the map optimise returns holds only such States.  NONE and ROW
\* are the names None and {0: 0, ...}
NONE == 0 - 2
ROW  == 0 - 3

\* the values of partition_locations: None, a number, or the dict {i: 0}
LocNone   == [kind |-> "none", n |-> 0]
LocInt(n) == [kind |-> "int",  n |-> n]
LocDict   == [kind |-> "dict", n |-> 0]

\* lines 60-67
initial_locations(D) ==
    [k \in DOMAIN D.at |->
        CASE D.at[k].transition.kind = "none" -> LocNone
          [] D.at[k].transition.kind = "eps"  -> LocInt(0)
          [] OTHER -> LocDict]

\* lines 146-161
indistinguishable(state_a, state_b, partition_locations, at) ==
    LET transition_a == at[state_a]
        transition_b == at[state_b]
    IN IF transition_a.output # transition_b.output THEN FALSE
       ELSE IF transition_a.transition.kind = "none"
       THEN transition_b.transition.kind = "none"
       ELSE IF transition_a.transition.kind = transition_b.transition.kind
       THEN \A i \in DOMAIN transition_a.transition.to :
               partition_locations[transition_a.transition.to[i]]
                   = partition_locations[transition_b.transition.to[i]]
       ELSE FALSE

\* lines 77-87: the states of a class after its first, each put with the
\* first part whose first state it is indistinguishable from, or alone
RECURSIVE subpartition_rest(_, _, _, _, _, _)
subpartition_rest(eqc, subpartition, new_partition_locations, top_eqc_pointer, partition_locations, at) ==
    IF eqc = <<>>
    THEN [subpartition |-> subpartition, locations |-> new_partition_locations]
    ELSE LET state == Head(eqc)
             hits == {i \in DOMAIN subpartition :
                         indistinguishable(subpartition[i][1], state, partition_locations, at)}
         IN IF hits # {}
            THEN LET i == CHOOSE h \in hits : \A g \in hits : h <= g
                 IN subpartition_rest(Tail(eqc),
                        [subpartition EXCEPT ![i] = Append(@, state)],
                        (state :> LocInt(i - 1 + top_eqc_pointer)) @@ new_partition_locations,
                        top_eqc_pointer, partition_locations, at)
            ELSE subpartition_rest(Tail(eqc),
                        Append(subpartition, <<state>>),
                        (state :> LocInt(Len(subpartition) + top_eqc_pointer))
                            @@ new_partition_locations,
                        top_eqc_pointer, partition_locations, at)

\* lines 71-90: one turn of the loop over the classes of partition
RECURSIVE refine(_, _, _, _, _, _)
refine(partition, new_partition, new_partition_locations, top_eqc_pointer, partition_locations, at) ==
    IF partition = <<>>
    THEN [partition |-> new_partition, locations |-> new_partition_locations]
    ELSE \* lines 75-76
         LET eqc == Head(partition)
             r == subpartition_rest(Tail(eqc), << <<eqc[1]>> >>,
                      (eqc[1] :> LocInt(top_eqc_pointer)) @@ new_partition_locations,
                      top_eqc_pointer, partition_locations, at)
         IN refine(Tail(partition), new_partition \o r.subpartition, r.locations,
                   top_eqc_pointer + Len(r.subpartition), partition_locations, at)

\* lines 68-95: until a turn leaves the partition as it is; the locations
\* are then those the last turn was given, not those it computed
RECURSIVE refine_loop(_, _, _)
refine_loop(partition, partition_locations, at) ==
    LET r == refine(partition, <<>>, <<>>, 0, partition_locations, at)
    IN IF partition = r.partition
       THEN [partition |-> partition, locations |-> partition_locations]
       ELSE refine_loop(r.partition, r.locations, at)

\* State(partition_locations[k]), lines 106 and 110
Located(loc) ==
    State(CASE loc.kind = "int" -> loc.n [] loc.kind = "none" -> NONE [] OTHER -> ROW, <<>>)

\* lines 98-111: one entry for each class, made from its first state
RECURSIVE optimised_version(_, _, _, _, _)
optimised_version(i, partition, partition_locations, at, made) ==
    IF i > Len(partition) THEN made
    ELSE LET transition == at[partition[i][1]]
             key == IF \E j \in DOMAIN partition[i] : partition[i][j] = State(START, <<>>)
                    THEN State(START, <<>>) ELSE State(i - 1, <<>>)
             value ==
                 CASE transition.transition.kind = "none" -> transition
                   [] transition.transition.kind = "eps" ->
                        Entry(transition.output,
                              Epsilon(Located(partition_locations[transition.transition.to[1]])))
                   [] OTHER ->
                        Entry(transition.output,
                              OnInput([n \in 1 .. MAXINT |->
                                  Located(partition_locations[transition.transition.to[n]])]))
         IN optimised_version(i + 1, partition, partition_locations, at, Put(made, key, value))

\* lines 132-137: an entry with its destinations target changed to state
Retargeted(e, target, state) ==
    [e EXCEPT !.transition.to = [i \in DOMAIN @ |-> IF @[i] = target THEN state ELSE @[i]]]

\* lines 124-137: the blank epsilon state takes the entry of its target,
\* the target is popped, and what named the target names state
strip(ov, state) ==
    LET target == ov.at[state].transition.to[1]
        kept == [keys |-> SelectSeq(ov.keys, LAMBDA k : k # target),
                 at   |-> [k \in DOMAIN ov.at \ {target} |->
                              IF k = state THEN ov.at[target] ELSE ov.at[k]]]
    IN [kept EXCEPT !.at = [k \in DOMAIN @ |-> Retargeted(@[k], target, state)]]

\* lines 117-137: the for loop over the keys the dict had when it began;
\* optimised_version[target] with target not a key is a KeyError
RECURSIVE strip_pass(_, _, _)
strip_pass(keys, ov, made_change) ==
    IF keys = <<>> THEN [states |-> ov, made_change |-> made_change, err |-> FALSE]
    ELSE LET state == Head(keys)
         IN IF /\ state \in DOMAIN ov.at
               /\ ov.at[state].transition.kind = "eps"
               /\ ov.at[state].output = PyNone
               /\ ov.at[state].transition.to[1] # state
            THEN IF ov.at[state].transition.to[1] \notin DOMAIN ov.at
                 THEN [states |-> ov, made_change |-> TRUE, err |-> TRUE]
                 ELSE strip_pass(Tail(keys), strip(ov, state), TRUE)
            ELSE strip_pass(Tail(keys), ov, made_change)

\* lines 113-139
RECURSIVE strip_blank_epsilons(_)
strip_blank_epsilons(r) ==
    IF r.err \/ ~r.made_change THEN [states |-> r.states, err |-> r.err]
    ELSE strip_blank_epsilons(strip_pass(r.states.keys, r.states, FALSE))

\* lines 98-111 from what the loop of lines 68-95 has left
optimised_from(p, at) == optimised_version(1, p.partition, p.locations, at, NoDict)

\* lines 56-144: the state map of the FSM returned, or an exception
optimise(D) ==
    strip_blank_epsilons([states |-> optimised_from(
                                        refine_loop(<<D.keys>>, initial_locations(D), D.at), D.at),
                          made_change |-> TRUE, err |-> FALSE])

\* ---- FSM.run, lines 30-52.  What is typed at the console is a sequence of
\* tokens: an integer, or something int() rejects; reading past the end of
\* the console is EOFError, which the bare except of line 43 catches too
Tok(n) == [isint |-> TRUE, n |-> n]
Junk   == [isint |-> FALSE, n |-> 0]
Tokens == {Tok(n) : n \in (0 - 1) .. MAXINT} \cup {Junk}
Consoles == UNION {[1 .. n -> Tokens] : n \in 0 .. MaxIn}

Ended(ret, state, consumed, printed, error) ==
    [ret |-> ret, at |-> state, consumed |-> consumed, printed |-> printed, error |-> error]

\* the while loop of lines 32-52; an epsilon cycle never returns ("forever"),
\* self.states[state] with state not a key is a KeyError ("raise")
RECURSIVE fsm_loop(_, _, _, _, _, _)
fsm_loop(D, state, inputs, consumed, printed, seen) ==
    IF state \notin DOMAIN D.at THEN Ended("raise", state, consumed, printed, "")
    ELSE IF state \in seen THEN Ended("forever", state, consumed, printed, "")
    ELSE LET output == D.at[state].output
             transition == D.at[state].transition
             out == IF output # PyNone THEN Append(printed, output) ELSE printed
         IN IF transition.kind = "none" THEN Ended("True", state, consumed, out, "")
            ELSE IF transition.kind = "eps"
            THEN fsm_loop(D, transition.to[1], inputs, consumed, out, seen \cup {state})
            ELSE IF consumed >= Len(inputs) \/ ~inputs[consumed + 1].isint
            THEN Ended("False", state, consumed, out, "input must be an integer")
            ELSE LET number_in == inputs[consumed + 1].n
                 IN IF number_in < 0 \/ number_in > MAXINT - 1
                    THEN Ended("False", state, consumed, out, "input must be 0-3")
                    ELSE IF number_in + 1 \in DOMAIN transition.to
                    THEN fsm_loop(D, transition.to[number_in + 1], inputs, consumed + 1, out, {})
                    ELSE Ended("True", state, consumed + 1, out, "")

\* lines 30-52 with the range test of line 46 off by one
fsm_run_off_by_one(D, start_state, inputs) ==
    LET r == fsm_loop(D, start_state, inputs, 0, <<>>, {})
    IN IF r.error = "input must be 0-3" /\ inputs[r.consumed + 1].n = MAXINT
       THEN Ended("True", r.at, r.consumed + 1, r.printed, "")
       ELSE r

fsm_run(D, start_state, inputs) == fsm_loop(D, start_state, inputs, 0, <<>>, {})

\* ---- the programs
\* the lines the programs of the family are made of
Lines ==
    { Label("L"), Goto("L"), Input("x"),
      Output("STRING", "s"), Output("VARNAME", "x"), Output("NUMBER", "1"),
      Assignment("x", Number(1)),
      Assignment("x", Operation(VarName("x"), "+", Number(1))),
      Assignment("x", Operation(VarName("x"), "/", Number(1))),
      ConditionalGoto("L", Operation(VarName("x"), ">", Number(1))),
      ConditionalGoto("L", Operation(VarName("x"), "%", Number(1))),
      ConditionalGoto("L", Number(1)),
      Unknown }
Programs(n) == UNION {[1 .. k -> Lines] : k \in 0 .. n}

\* input x; if x > 1 goto L; output "lo"; goto END; L: output "hi"; END:
Branching ==
    << Input("x"),
       ConditionalGoto("L", Operation(VarName("x"), ">", Number(1))),
       Output("STRING", "lo"), Goto("END"),
       Label("L"), Output("STRING", "hi"),
       Label("END") >>

\* input c; if c goto B; input x; input y; goto E; B: input y; input x; E: c = 0
Reordering ==
    << Input("c"), ConditionalGoto("B", VarName("c")),
       Input("x"), Input("y"), Goto("E"),
       Label("B"), Input("y"), Input("x"),
       Label("E"), Assignment("c", Number(0)) >>

\* x = 1; L: x = x + 1; goto L
Counting ==
    << Assignment("x", Number(1)),
       Label("L"),
       Assignment("x", Operation(VarName("x"), "+", Number(1))),
       Goto("L") >>

\* goto L; L: input x; goto L
Looping ==
    << Goto("L"), Label("L"), Input("x"), Goto("L") >>

\* ---- operations
\* no DFA is in use
NoAutomaton ==
    /\ states = NoDict /\ heap = <<>> /\ start = NoState /\ epsilons_minimised = FALSE
    /\ pre = Snapshot /\ op = "none" /\ raised = FALSE /\ nmin = 0
    /\ decided = NotDecided /\ ran = NotRun /\ args = NoArgs /\ stepping = NotStepping

\* a program of P was parsed and generate_states(AST, label_index) is entered
Parsed(P) ==
    /\ AST \in P
    /\ gen = [status |-> "running", stack |-> <<Frame("loop", 0, <<>>, "", 0)>>,
              states |-> NoDict, printed |-> {}]
    /\ fsm = NoDict
    /\ fran = NotFsmRun
    /\ optimised = NotOptimised
    /\ NoAutomaton

InitLang == Parsed(Programs(MaxLines) \cup {Branching, Reordering, Counting, Looping})

automaton == <<dfa, decided, ran, stepping>>

\* no variable of a frame of g is beyond MaxVal
WithinMaxVal(g) ==
    \A i \in DOMAIN g.stack : \A j \in DOMAIN g.stack[i].variables :
        LET n == g.stack[i].variables[j][2].n IN n <= MaxVal /\ 0 - n <= MaxVal

\* one turn of a loop of generate_states
GenStep ==
    /\ gen.status = "running"
    /\ LET g == gen_step(AST, gen) IN WithinMaxVal(g) /\ gen' = g
    /\ UNCHANGED <<AST, fsm, fran, optimised, automaton>>

\* compile, once generate_states has returned the states
Compile ==
    /\ gen.status = "done"
    /\ fsm = NoDict
    /\ fsm' = compile(gen.states)
    /\ UNCHANGED <<AST, gen, fran, optimised, automaton>>

\* FSM.run() of the compiled machine, with what is typed at the console
FsmRun ==
    /\ fsm # NoDict
    /\ \E inputs \in Consoles :
          fran' = [called |-> TRUE, inputs |-> inputs,
                   result |-> fsm_run(fsm, State(START, <<>>), inputs)]
    /\ UNCHANGED <<AST, gen, fsm, optimised, automaton>>

\* every destination of every entry of the state map D, the State of an
\* unconditional transition or of an input, is a key of D
Integral(D) ==
    \A k \in DOMAIN D.at : \A i \in DOMAIN D.at[k].transition.to :
        D.at[k].transition.to[i] \in DOMAIN D.at

\* optimise(fsm) of the compiled machine, when its destinations are all
\* keys of it and State('start') is
Optimise ==
    /\ fsm # NoDict
    /\ ~optimised.called
    /\ Len(fsm.keys) <= MaxKeys
    /\ State(START, <<>>) \in DOMAIN fsm.at
    /\ Integral(fsm)
    /\ \E r \in {optimise(fsm)} :
          optimised' = [called |-> TRUE, raised |-> r.err, states |-> r.states]
    /\ UNCHANGED <<AST, gen, fsm, fran, automaton>>

NextLang == GenStep \/ Compile \/ FsmRun

NextOpt == GenStep \/ Compile \/ Optimise

\* generate_states alone
SpecGen == InitLang /\ [][GenStep]_vars

\* a program is compiled and the machine is run
SpecLang == InitLang /\ [][NextLang]_vars

\* a program is compiled and the machine is optimised
SpecOpt == InitLang /\ [][NextOpt]_vars

\* ---------------------------------------------------------------- notions
Cur == Snapshot
KeySet(d) == {d.states.keys[i] : i \in 1 .. Len(d.states.keys)}
RunOn(d, b) == run(d.states.at, d.heap, d.start, b)

\* an automaton as a reader of it sees it: the states in order, every
\* Transition with its destination and the content of its output list, and
\* the start name
View(d) ==
    [keys  |-> d.states.keys,
     at    |-> [s \in DOMAIN d.states.at |->
                  [kind  |-> d.states.at[s].kind,
                   edges |-> [l \in DOMAIN d.states.at[s].edges |->
                                [state_to |-> d.states.at[s].edges[l].state_to,
                                 output   |-> d.heap[d.states.at[s].edges[l].output]]]]],
     start |-> d.start]

\* every destination names a state of the automaton
Resolved(d) ==
    \A s \in DOMAIN d.states.at : \A l \in DOMAIN d.states.at[s].edges :
        d.states.at[s].edges[l].state_to \in DOMAIN d.states.at

SelfLoop(d, s) ==
    /\ s \in DOMAIN d.states.at
    /\ d.states.at[s].kind = "eps"
    /\ d.states.at[s].edges[EPS].state_to = s

\* the indistinguishability relation on state names: the greatest relation R
\* such that a pair in R is two halting states, or two self-looping
\* unconditional states with equal outputs, or two rows with the same keys
\* whose outputs agree on every key and whose destinations are again in R
IndistStep(d, R, a, b) ==
    LET T == d.states.at
    IN \/ a = b
       \/ /\ a \in DOMAIN T /\ b \in DOMAIN T
          /\ \/ T[a].kind = "none" /\ T[b].kind = "none"
             \/ /\ SelfLoop(d, a) /\ SelfLoop(d, b)
                /\ d.heap[T[a].edges[EPS].output] = d.heap[T[b].edges[EPS].output]
             \/ /\ T[a].kind = "row" /\ T[b].kind = "row"
                /\ DOMAIN T[a].edges = DOMAIN T[b].edges
                /\ \A k \in DOMAIN T[a].edges :
                      /\ d.heap[T[a].edges[k].output] = d.heap[T[b].edges[k].output]
                      /\ <<T[a].edges[k].state_to, T[b].edges[k].state_to>> \in R

RECURSIVE IndistFrom(_, _)
IndistFrom(d, R) ==
    LET R2 == {p \in R : IndistStep(d, R, p[1], p[2])}
    IN IF R2 = R THEN R ELSE IndistFrom(d, R2)

Indistinguishable(d) == IndistFrom(d, (DOMAIN d.states.at) \X (DOMAIN d.states.at))

\* the names reachable from the names in S along the Transitions
RECURSIVE ReachFrom(_, _)
ReachFrom(d, S) ==
    LET T == d.states.at
        S2 == S \cup {T[s].edges[l].state_to : <<s, l>> \in
                        {p \in (S \cap DOMAIN T) \X {LabelOrder[i] : i \in DOMAIN LabelOrder} :
                            p[2] \in DOMAIN T[p[1]].edges}}
    IN IF S2 = S THEN S ELSE ReachFrom(d, S2)

\* no state reachable from the start reads input: each is halting or holds
\* an unconditional Transition
InputIndependent(d) ==
    \A s \in ReachFrom(d, {d.start}) : s \in DOMAIN d.states.at /\ d.states.at[s].kind # "row"

\* ------------------------------------------------------------------ claims

\* C1: for every input buffer on which run from the start state halts both
\* before and after minimise(), the output printed is the same before and
\* after.
C1_MinimisePreservesOutput ==
    (op = "min" /\ ~raised) =>
        \A b \in Buffers(Keys) :
            (RunOn(pre, b).kind = "halt" /\ RunOn(Cur, b).kind = "halt")
                => RunOn(pre, b).output = RunOn(Cur, b).output

\* C2: for every input buffer on which run from the start state halts both
\* before and after minimise_epsilons(), the output printed is the same
\* before and after.
C2_EpsilonsPreserveOutput ==
    op = "eps" =>
        \A b \in Buffers(Keys) :
            (RunOn(pre, b).kind = "halt" /\ RunOn(Cur, b).kind = "halt")
                => RunOn(pre, b).output = RunOn(Cur, b).output

\* C3: a state that is a self-looping unconditional Transition before
\* minimise_epsilons() is still a state afterwards, with the same
\* destination and the same output.
C3_SelfLoopsSurvive ==
    op = "eps" =>
        \A s \in KeySet(pre) :
            SelfLoop(pre, s) =>
                /\ SelfLoop(Cur, s)
                /\ View(Cur).at[s].edges[EPS].output = View(pre).at[s].edges[EPS].output

\* C4: after minimise() self.start is what it was before the call and is a
\* key of self.states (the class of the start state is represented by the
\* start state's own name).
C4_StartPreserved ==
    (op = "min" /\ ~raised) =>
        /\ start = pre.start
        /\ start \in DOMAIN states.at

\* C5: after minimise() no two distinct states of self.states are
\* indistinguishable.
C5_MinimiseSound ==
    (op = "min" /\ ~raised) =>
        \A a \in DOMAIN states.at : \A b \in DOMAIN states.at :
            a # b => <<a, b>> \notin Indistinguishable(Cur)

\* C6: minimise() on an automaton that minimise() has already returned
\* leaves the states, destinations, outputs and start name unchanged.
C6_MinimiseIdempotent ==
    (op = "min" /\ ~raised /\ nmin = 2) => View(Cur) = View(pre)

C8_DestinationsResolve ==
    (op \in {"eps", "min"} /\ ~raised /\ Resolved(pre)) => Resolved(Cur)

\* C9: when decide(start, A) answers that the automaton will run forever
\* regardless of input, run(start, b) halts for no buffer b of symbols of A.
C9_RunForeverVerdict ==
    (decided.called /\ decided.verdict = RunForever) =>
        \A b \in Buffers(decided.alphabet) : RunOn(Cur, b).kind # "halt"

\* C10: when decide(start, A) answers that the automaton will halt
\* eventually regardless of input, run(start, b) halts for every buffer b
\* of symbols of A.
C10_WillHaltVerdict ==
    (decided.called /\ decided.verdict = WillHalt) =>
        \A b \in Buffers(decided.alphabet) : RunOn(Cur, b).kind = "halt"

\* C11: on an automaton all of whose states reachable from the start are
\* halting or unconditional, decide returns "will halt" or "will run forever"
\* and never the "depending on input" verdict, whatever the alphabet.
C11_InputIndependentVerdict ==
    (decided.called /\ InputIndependent(Cur))
        => decided.verdict \in {WillHalt, RunForever}

\* an unconditional chain of two states that loops, decided for alphabet {a}
C11_Witness ==
    /\ decided.called /\ InputIndependent(Cur)
    /\ decided.alphabet = {"a"}
    /\ Cardinality(ReachFrom(Cur, {start})) = 2
    /\ decided.verdict = RunForever

\* C12: a call of step on a row state takes exactly the first symbol off a
\* non-empty buffer and follows its Transition (it reads eof, and returns
\* the empty buffer, when the buffer is empty); on a halting or unconditional
\* state the returned buffer is the given one; a symbol that is no key of
\* the row gives no next state and the empty output; and the call leaves
\* the states and the output lists of the automaton as they were.
C12_StepDiscipline ==
    [][ stepping'.called =>
          LET c == stepping'
              d == states.at[c.state]
              input_symbol == IF c.given = <<>> THEN EOF ELSE Head(c.given)
          IN /\ (d.kind = "row" /\ c.given # <<>>) => c.result.buffer = Tail(c.given)
             /\ (d.kind = "row" /\ c.given = <<>>) => c.result.buffer = <<>>
             /\ d.kind # "row" => c.result.buffer = c.given
             /\ (d.kind = "row" /\ input_symbol \in DOMAIN d.edges) =>
                    /\ c.result.next = d.edges[input_symbol].state_to
                    /\ c.result.output = heap[d.edges[input_symbol].output]
             /\ (d.kind = "row" /\ input_symbol \notin DOMAIN d.edges) =>
                    c.result.next = NoState /\ c.result.output = <<>>
             /\ states' = states /\ heap' = heap /\ start' = start
      ]_vars

\* step was called on an unconditional state with two symbols still to read
C12_Witness ==
    /\ stepping.called
    /\ states.at[stepping.state].kind = "eps"
    /\ Len(stepping.given) = 2
    /\ stepping.result.next # NoState

\* the names given to DFA(...) repeat
Duplicates(a) == \E i, j \in DOMAIN a.names : i # j /\ a.names[i] = a.names[j]

\* C13: DFA(start, states, ...) raises, returns no automaton and does not
\* call minimise, whenever two of the given states have the same name or
\* start is not the name of a given state.
C13_ConstructionRejects ==
    (op \in {"new", "newmin"}
       /\ (Duplicates(args) \/ start \notin {args.names[i] : i \in DOMAIN args.names}))
        => (raised /\ states = NoDict /\ op = "new" /\ heap = pre.heap)

\* the constructor was called with distinct names of which start is none
C13_Witness ==
    /\ op \in {"new", "newmin"}
    /\ ~Duplicates(args)
    /\ start \notin {args.names[i] : i \in DOMAIN args.names}
    /\ raised

\* some Transition of the given states names no given state
Unresolved(a) ==
    \E i \in DOMAIN a.descs : \E l \in DOMAIN a.descs[i].edges :
        a.descs[i].edges[l].state_to \notin {a.names[j] : j \in DOMAIN a.names}

\* C14: DFA(...) raises, for either value of minimise, whenever some
\* Transition names a destination that is no given state; it never returns
\* an automaton with an unresolved destination.
C14_UnresolvedRejected ==
    /\ (op \in {"new", "newmin"} /\ Unresolved(args)) => raised
    /\ (op \in {"new", "newmin"} /\ ~raised) => Resolved(Cur)

\* C15: the automaton of the repository's test, built with the default
\* minimisation, has no state preB2, and run from A on the buffer a c b c
\* prints x z y z, in that order, and halts in A on the missing next symbol.
C15_TestScenario ==
    op = "newmin" =>
        /\ ~raised
        /\ preB2 \notin DOMAIN states.at
        /\ (ran.called /\ ran.buffer = TestInput) =>
              ran.result = [kind |-> "halt", at |-> A, output |-> <<"x", "z", "y", "z">>]

\* the test's automaton was built and run on a c b c
C15_Witness ==
    /\ op = "newmin" /\ ~raised
    /\ ran.called /\ ran.buffer = TestInput
    /\ ran.result.kind = "halt"

\* the automaton d as minimise() sees it once its epsilons are minimised
AfterEpsilons(d) ==
    IF d.epsilons_minimised THEN d
    ELSE LET e == minimise_epsilons(d.states.keys, d.states.at, d.heap)
         IN [states |-> [keys |-> e.K, at |-> e.T], heap |-> e.H, start |-> d.start,
             epsilons_minimised |-> TRUE]

\* the equivalence_classes minimise() computes for d: name -> class number
ClassesOf(d) ==
    LET e   == AfterEpsilons(d)
        ps  == Pairs(e.states.keys)
        tab == fill_table(e.states.at, e.heap, ps, [p \in {ps[i] : i \in 1 .. Len(ps)} |-> "None"])
    IN equivalence_classes(e.states.keys, tab.tab)

\* C20: when minimise() puts two distinct states into one class, to be
\* replaced by one representative, the two are indistinguishable: two rows
\* with the same keys whose outputs differ on a key, or whose destinations
\* are distinguishable, are never folded.
C20_FoldsOnlyIndistinguishable ==
    (op = "min" /\ ~raised) =>
        LET ec == ClassesOf(pre)
        IN \A a, b \in DOMAIN ec :
              (a # b /\ ec[a] = ec[b]) => <<a, b>> \in Indistinguishable(AfterEpsilons(pre))

\* C16: when FSM.run is at an input state and what is typed is not an
\* integer, or is an integer outside 0..MAXINT-1, it reports a runtime error
\* and returns False; it returns True only on a normal halt, in a state
\* without a transition; and the call leaves the state map of the FSM as
\* it was.
C16_RuntimeInputErrors ==
    [][ fran'.called =>
          LET r == fran'.result
              typed == fran'.inputs
              at_input == r.at \in DOMAIN fsm.at /\ fsm.at[r.at].transition.kind = "input"
              bad == /\ r.consumed < Len(typed)
                     /\ \/ ~typed[r.consumed + 1].isint
                        \/ typed[r.consumed + 1].n < 0
                        \/ typed[r.consumed + 1].n > MAXINT - 1
          IN /\ (at_input /\ bad) => (r.ret = "False" /\ r.error # "")
             /\ r.ret = "False" => (at_input /\ r.error # "")
             /\ r.ret = "True" => (r.error = "" /\ fsm.at[r.at].transition.kind = "none")
             /\ fsm' = fsm
      ]_vars

\* a run that was typed the out-of-range number MAXINT at an input state
C16_Witness ==
    /\ fran.called
    /\ fran.result.consumed < Len(fran.inputs)
    /\ fran.inputs[fran.result.consumed + 1] = Tok(MAXINT)
    /\ fran.result.ret = "False"
    /\ fran.result.error = "input must be 0-3"

\* the dict variables as a mapping: its bindings, whatever their order
AsMapping(variables) == {variables[i] : i \in DOMAIN variables}

\* C17: during and after generate_states, two keys of the state map are the
\* same key exactly when their lines are equal and their variables are
\* equal as mappings, whatever the order the variables were bound in: the
\* map never holds two distinct keys with the same line and the same
\* mapping.
C17_StateIdentity ==
    \A k1, k2 \in DOMAIN gen.states.at :
        (k1.name = k2.name /\ AsMapping(k1.variables) = AsMapping(k2.variables)) => k1 = k2

\* C18: once generate_states has reached a line of unknown kind, or has
\* evaluated an unrecognised operator, generation is aborted: it is not
\* going on and it returns no state map.
C18_CompilerErrorsFatal ==
    (gen.printed \cap {"unknown command", "unrecognised op"} # {})
        => gen.status \in {"raise", "exit"}

\* a value that is not zero (and not nothing: None, the empty string)
NonZero(v) == v.kind # "none" /\ v.n # 0

\* C19: the entry generate_states records for a conditional goto at
\* (line, variables) is one output-free unconditional transition, to the
\* line of the label with the same variables when the expression is
\* non-zero there, else to the next line; and the machine compiled from
\* the program Branching prints exactly "lo" when typed 0 or 1, exactly
\* "hi" when typed 2 or 3, and then halts in a state without transition.
C19_BranchesResolved ==
    /\ \A k \in DOMAIN gen.states.at :
          (k.name < Len(AST) /\ AST[k.name + 1].data = "conditionalgoto") =>
              LET line == AST[k.name + 1]
                  v == run_expression(line.expr, k.variables).val
              IN gen.states.at[k] =
                    Entry(PyNone, Epsilon(State(IF NonZero(v) THEN label_index(AST)[line.label]
                                                ELSE k.name + 1,
                                                k.variables)))
    /\ (AST = Branching /\ fran.called /\ fran.inputs # <<>>) =>
          \A i \in 0 .. 3 :
              fran.inputs[1] = Tok(i) =>
                  /\ fran.result.ret = "True"
                  /\ fran.result.printed = <<PyStr(IF i <= 1 THEN "lo" ELSE "hi", 1)>>
                  /\ fsm.at[fran.result.at].transition = Halt

\* the machine compiled from Branching was run and typed 2
C19_Witness ==
    /\ AST = Branching
    /\ fran.called /\ fran.inputs # <<>> /\ fran.inputs[1] = Tok(2)
    /\ fran.result.printed = <<PyStr("hi", 1)>>
    /\ \E k \in DOMAIN gen.states.at :
          k.name = 1 /\ gen.states.at[k].transition = Epsilon(State(4, k.variables))

\* C21: on an automaton all of whose destinations name a state, for every
\* start state and every alphabet of symbols, the empty one included, decide
\* returns one of its three verdicts and never raises.
C21_DecideTotal ==
    (decided.called /\ Resolved(Cur))
        => decided.verdict \in {MayEither, RunForever, WillHalt}

\* a value that is an integer of the range of the inputs, 0 .. MAXINT - 1
InRange(v) == v.kind = "int" /\ v.n \in 0 .. MAXINT - 1

\* C23: in every state materialised by generate_states (a key of the state
\* map), every variable bound in the environment holds an integer in
\* 0 .. MAXINT - 1, whatever inputs and assignments (with +, - or *) led
\* there.
C23_BoundedEnvironment ==
    \A k \in DOMAIN gen.states.at :
        \A j \in DOMAIN k.variables : InRange(k.variables[j][2])

\* the variables a program binds: those of its input and assignment lines
Variables(lines) ==
    {lines[i].var : i \in {j \in DOMAIN lines : lines[j].data \in {"input", "assignment"}}}

\* the number of (line, environment) pairs there are for a program: a line
\* 0 .. len and, for each variable, unbound or one of the MAXINT values
SpaceSize(lines) == (Len(lines) + 1) * (MAXINT + 1) ^ Cardinality(Variables(lines))

\* the (line, environment) pairs materialised so far
Materialised == {<<k.name, AsMapping(k.variables)>> : k \in DOMAIN gen.states.at}

\* C22: generate_states terminates having materialised only finitely many
\* (line, environment) states, every path reaching the end of the program or
\* a pair already materialised: the pairs it materialises are pairs of the
\* finite space of the program, so that the state map never holds more
\* pairs than that space has.
C22_GeneratorTerminates ==
    Cardinality(Materialised) <= SpaceSize(AST)

\* C24: in the FSM compile returns, State('start') is a key of the state map
\* and every destination of every state is a key of the state map, also
\* when the program jumps back to line 0 with no variable bound.
C24_CompiledIntegrity ==
    fsm # NoDict =>
        /\ State(START, <<>>) \in DOMAIN fsm.at
        /\ Integral(fsm)

\* C25: optimise of an FSM whose destinations are all keys and that holds
\* State('start') returns; the state map returned holds State('start') and
\* every destination of every state of it is a key of it, the destinations
\* in the class of the start state included.
C25_OptimisedIntegrity ==
    optimised.called =>
        /\ ~optimised.raised
        /\ State(START, <<>>) \in DOMAIN optimised.states.at
        /\ Integral(optimised.states)

====
